---- MODULE Spec2Model ----
(***************************************************************************)
(* Model of examples/common/window.rs: the OpenWindow shader, a window     *)
(* with three optional effect slots (parent_window_fx, pre_render_fx,      *)
(* content_fx) composed on one ratatui Buffer.                             *)
(*                                                                         *)
(* Option<T> is a sequence of length at most one: <<>> is None and <<v>>   *)
(* is Some(v).  A Rect is a record [x, y, width, height].                  *)
(***************************************************************************)
EXTENDS Integers, Sequences, FiniteSets, TLC

\* ------------------------------------------------------------------------
\* Bounds of the model
\* ------------------------------------------------------------------------
MaxRemaining == 2  \* longest effect timeline, in time units
MaxDuration == 3   \* longest quantum passed to one call

None == <<>>
Some(v) == <<v>>
IsSome(o) == Len(o) = 1
IsNone(o) == Len(o) = 0
Unwrap(o) == o[1]

Min(a, b) == IF a < b THEN a ELSE b
Max(a, b) == IF a > b THEN a ELSE b

\* ------------------------------------------------------------------------
\* ratatui::layout::Rect
\* ------------------------------------------------------------------------
U16Max == 2^16 - 1

SaturatingAdd(a, b) == Min(a + b, U16Max)
SaturatingSub(a, b) == Max(a - b, 0)

Rect(x, y, w, h) == [x |-> x, y |-> y, width |-> w, height |-> h]

Right(r) == SaturatingAdd(r.x, r.width)
Bottom(r) == SaturatingAdd(r.y, r.height)

\* u16::clamp(v, lo, hi)
ClampU16(v, lo, hi) == IF v < lo THEN lo ELSE IF v > hi THEN hi ELSE v

\* Rect::clamp(self, other): self moved and shrunk to fit inside other
RectClamp(r, other) ==
    LET width == Min(r.width, other.width)
        height == Min(r.height, other.height)
        x == ClampU16(r.x, other.x, SaturatingSub(Right(other), width))
        y == ClampU16(r.y, other.y, SaturatingSub(Bottom(other), height))
    IN Rect(x, y, width, height)

\* r lies inside other (every cell of r is a cell of other)
Within(r, other) ==
    /\ r.x >= other.x
    /\ r.y >= other.y
    /\ Right(r) <= Right(other)
    /\ Bottom(r) <= Bottom(other)

\* the surface the window is rendered to, and the regions callers and
\* effects name: one that is the whole surface, one that is wider than the
\* surface and reaches outside it on both axes
Screen == Rect(0, 0, 10, 3)
Oversize == Rect(4, 2, 12, 2)
Surfaces == {Screen}
Rects == {Screen, Oversize}
Durations == 0..MaxDuration

\* ------------------------------------------------------------------------
\* tachyonfx::Effect, the contract the window consumes
\* ------------------------------------------------------------------------
\* An effect is [phase, remaining, area, reshape]: its timeline position,
\* the time left on its timer, the region it reports (Option<Rect>) and the
\* region it moves to when it is advanced (Option<Rect>, None for an effect
\* that keeps the region it was given).
\*   "idle"    : not yet started, neither running nor done
\*   "running" : running() is true
\*   "done"    : done() is true
Effect(phase, remaining, area, reshape) ==
    [phase |-> phase, remaining |-> remaining, area |-> area,
     reshape |-> reshape]

EffectRunning(fx) == fx.phase = "running"
EffectDone(fx) == fx.phase = "done"
EffectArea(fx) == fx.area
EffectSetArea(fx, area) == [fx EXCEPT !.area = Some(area)]

\* leftover of a timer with `remaining` left, advanced by `duration`:
\* None if the whole quantum was consumed, Some(unused time) otherwise
TimerOverflow(remaining, duration) ==
    IF remaining >= duration THEN None ELSE Some(duration - remaining)

TimerRemaining(remaining, duration) ==
    IF remaining >= duration THEN remaining - duration ELSE 0

\* Effect::process(duration, buf, area): the set of outcomes
\* [fx |-> the effect afterwards, overflow |-> the leftover it returns].
\* An effect that has not started either starts with this call or lets the
\* quantum pass.
EffectProcess(fx, duration) ==
    LET rem == TimerRemaining(fx.remaining, duration)
        advanced ==
            [fx |-> Effect(IF rem = 0 THEN "done" ELSE "running", rem,
                           IF IsSome(fx.reshape) THEN fx.reshape ELSE fx.area,
                           fx.reshape),
             overflow |-> TimerOverflow(fx.remaining, duration)]
    IN {advanced}
       \cup (IF fx.phase = "idle"
             THEN {[fx |-> fx, overflow |-> Some(duration)]}
             ELSE {})

\* effects a slot can be built with
\* effects that paint: they keep the region they are given
Effects ==
    { Effect("idle", MaxRemaining, None, None),
      Effect("running", MaxRemaining, None, None),
      Effect("done", 0, None, None) }

\* effects that set up geometry: they may also move to a region of their own
GeometryEffects ==
    Effects \cup { [fx EXCEPT !.reshape = Some(r)] : fx \in Effects, r \in Rects }

Opt(S) == {None} \cup { Some(v) : v \in S }

\* ------------------------------------------------------------------------
\* OpenWindow
\* ------------------------------------------------------------------------
VARIABLES
    pre_render_fx,     \* Option<Effect>: sets up geometry
    parent_window_fx,  \* Option<Effect>: applied to the whole buffer
    content_fx,        \* Option<Effect>: applied to the content area
    buf_area,          \* Rect: bounds of the Buffer the window renders to
    call,              \* the last call made on the window and its arguments
    rendered,          \* what the last call did to the buffer, in order
    result,            \* Option<Option<Duration>>: what the last process returned
    builder,           \* Option<OpenWindowBuilder>: None once it is consumed
    status             \* "building", "live", "build_err" (build returned Err)
                       \* or "panicked"

vars == <<pre_render_fx, parent_window_fx, content_fx, buf_area,
          call, rendered, result, builder, status>>

\* one entry of `rendered`: who wrote to which region of the buffer with what
\* quantum, and the leftover an effect returned
Render(who, area, duration, overflow) ==
    [who |-> who, area |-> area, duration |-> duration, overflow |-> overflow]

Call(name, duration, area) ==
    [name |-> name, duration |-> duration, area |-> area]

\* Done, had it looked at the slot only and not at the effect in it
Done_SlotOnly(pre) == IsNone(pre)

\* Shader::done for OpenWindow
Done(pre) == IsNone(pre) \/ (IsSome(pre) /\ EffectDone(Unwrap(pre)))

\* Shader::area for OpenWindow
Area(pre) == IF IsSome(pre) THEN EffectArea(Unwrap(pre)) ELSE None

Init ==
    /\ pre_render_fx \in Opt(GeometryEffects)
    /\ parent_window_fx \in Opt(Effects)
    /\ content_fx \in Opt(Effects)
    /\ buf_area \in Surfaces
    /\ call = Call("new", 0, None)
    /\ rendered = <<>>
    /\ result = None
    /\ builder = None
    /\ status = "live"

\* ScreenArea, had it forwarded the region to the pre-render effect as well
ScreenArea_AlsoPreRender(area) ==
    /\ parent_window_fx' =
         IF IsSome(parent_window_fx)
         THEN Some(EffectSetArea(Unwrap(parent_window_fx), area))
         ELSE parent_window_fx
    /\ pre_render_fx' =
         IF IsSome(pre_render_fx)
         THEN Some(EffectSetArea(Unwrap(pre_render_fx), area))
         ELSE pre_render_fx
    /\ call' = Call("screen_area", 0, Some(area))
    /\ rendered' = <<>>
    /\ result' = None
    /\ UNCHANGED <<content_fx, buf_area>>

\* OpenWindow::screen_area
ScreenArea(area) ==
    /\ parent_window_fx' =
         IF IsSome(parent_window_fx)
         THEN Some(EffectSetArea(Unwrap(parent_window_fx), area))
         ELSE parent_window_fx
    /\ call' = Call("screen_area", 0, Some(area))
    /\ rendered' = <<>>
    /\ result' = None
    /\ UNCHANGED <<pre_render_fx, content_fx, buf_area>>

\* SetArea, had it forwarded the region to the parent effect, as screen_area
SetArea_ForwardsToParent(area) ==
    /\ parent_window_fx' =
         IF IsSome(parent_window_fx)
         THEN Some(EffectSetArea(Unwrap(parent_window_fx), area))
         ELSE parent_window_fx
    /\ call' = Call("set_area", 0, Some(area))
    /\ rendered' = <<>>
    /\ result' = None
    /\ UNCHANGED <<pre_render_fx, content_fx, buf_area>>

\* Shader::set_area for OpenWindow
SetArea(area) ==
    /\ pre_render_fx' =
         IF IsSome(pre_render_fx)
         THEN Some(EffectSetArea(Unwrap(pre_render_fx), area))
         ELSE pre_render_fx
    /\ call' = Call("set_area", 0, Some(area))
    /\ rendered' = <<>>
    /\ result' = None
    /\ UNCHANGED <<parent_window_fx, content_fx, buf_area>>

\* ProcessingContentFx, had it rendered the window block after the effect
ProcessingContentFx_WithChrome(duration, area) ==
    /\ IF IsSome(content_fx) /\ EffectRunning(Unwrap(content_fx))
       THEN \E o \in EffectProcess(Unwrap(content_fx), duration) :
               /\ content_fx' = Some(o.fx)
               /\ rendered' =
                    <<Render("content_fx", area, duration, o.overflow),
                      Render("window_block", area, 0, None)>>
       ELSE /\ content_fx' = content_fx
            /\ rendered' = <<>>
    /\ call' = Call("processing_content_fx", duration, Some(area))
    /\ result' = None
    /\ UNCHANGED <<pre_render_fx, parent_window_fx, buf_area>>

\* ProcessingContentFx, had it advanced the effect without asking running()
ProcessingContentFx_AlwaysAdvance(duration, area) ==
    /\ IF IsSome(content_fx)
       THEN \E o \in EffectProcess(Unwrap(content_fx), duration) :
               /\ content_fx' = Some(o.fx)
               /\ rendered' = <<Render("content_fx", area, duration, o.overflow)>>
       ELSE /\ content_fx' = content_fx
            /\ rendered' = <<>>
    /\ call' = Call("processing_content_fx", duration, Some(area))
    /\ result' = None
    /\ UNCHANGED <<pre_render_fx, parent_window_fx, buf_area>>

\* OpenWindow::processing_content_fx
ProcessingContentFx(duration, area) ==
    /\ IF IsSome(content_fx) /\ EffectRunning(Unwrap(content_fx))
       THEN \E o \in EffectProcess(Unwrap(content_fx), duration) :
               /\ content_fx' = Some(o.fx)
               /\ rendered' = <<Render("content_fx", area, duration, o.overflow)>>
       ELSE /\ content_fx' = content_fx
            /\ rendered' = <<>>
    /\ call' = Call("processing_content_fx", duration, Some(area))
    /\ result' = None
    /\ UNCHANGED <<pre_render_fx, parent_window_fx, buf_area>>

\* ParentPass, had it kept a finished parent effect in its slot
ParentPass_NeverEvicts(parent, duration) ==
    IF IsSome(parent)
    THEN { [ran |-> TRUE, fx |-> Some(o.fx), overflow |-> o.overflow] :
             o \in EffectProcess(Unwrap(parent), duration) }
    ELSE { [ran |-> FALSE, fx |-> parent, overflow |-> None] }

\* ParentPass, had it advanced the parent effect only while it is running
ParentPass_OnlyWhenRunning(parent, duration) ==
    IF IsSome(parent) /\ EffectRunning(Unwrap(parent))
    THEN { [ran |-> TRUE,
            fx |-> IF EffectDone(o.fx) THEN None ELSE Some(o.fx),
            overflow |-> o.overflow] : o \in EffectProcess(Unwrap(parent), duration) }
    ELSE { [ran |-> FALSE, fx |-> parent, overflow |-> None] }

\* process, the parent pass: the parent effect is advanced whenever the slot
\* is occupied, and the slot is emptied if the effect is done afterwards.
\* The outcomes [ran, fx |-> the slot afterwards, overflow].
ParentPass(parent, duration) ==
    IF IsSome(parent)
    THEN { [ran |-> TRUE,
            fx |-> IF EffectDone(o.fx) THEN None ELSE Some(o.fx),
            overflow |-> o.overflow] : o \in EffectProcess(Unwrap(parent), duration) }
    ELSE { [ran |-> FALSE, fx |-> parent, overflow |-> None] }

\* PreRenderPass, had its fallback arm returned None instead of Some(duration)
PreRenderPass_NoneWhenNotRunning(pre, duration) ==
    IF IsSome(pre) /\ EffectRunning(Unwrap(pre))
    THEN { [ran |-> TRUE, fx |-> Some(o.fx), overflow |-> o.overflow] :
             o \in EffectProcess(Unwrap(pre), duration) }
    ELSE { [ran |-> FALSE, fx |-> pre, overflow |-> None] }

\* PreRenderPass, had it dropped the leftover of the effect and returned the
\* whole quantum in both arms
PreRenderPass_DropsLeftover(pre, duration) ==
    IF IsSome(pre) /\ EffectRunning(Unwrap(pre))
    THEN { [ran |-> TRUE, fx |-> Some(o.fx), overflow |-> Some(duration)] :
             o \in EffectProcess(Unwrap(pre), duration) }
    ELSE { [ran |-> FALSE, fx |-> pre, overflow |-> Some(duration)] }

\* PreRenderPass, had it advanced the effect whenever the slot is occupied
PreRenderPass_NoRunningGuard(pre, duration) ==
    IF IsSome(pre)
    THEN { [ran |-> TRUE, fx |-> Some(o.fx), overflow |-> o.overflow] :
             o \in EffectProcess(Unwrap(pre), duration) }
    ELSE { [ran |-> FALSE, fx |-> pre, overflow |-> Some(duration)] }

\* process, the pre-render pass: the effect is advanced only if it is
\* running, and its leftover is the overflow of the call; otherwise the
\* overflow is the whole quantum.
PreRenderPass(pre, duration) ==
    IF IsSome(pre) /\ EffectRunning(Unwrap(pre))
    THEN { [ran |-> TRUE, fx |-> Some(o.fx), overflow |-> o.overflow] :
             o \in EffectProcess(Unwrap(pre), duration) }
    ELSE { [ran |-> FALSE, fx |-> pre, overflow |-> Some(duration)] }

\* EffectiveArea, had it used the region of the effect without clamping it
EffectiveArea_NoClamp(pre, area, bufArea) ==
    IF IsSome(Area(pre)) THEN Unwrap(Area(pre)) ELSE area

\* EffectiveArea, had it always used the region passed in
EffectiveArea_CallerOnly(pre, area, bufArea) == area

\* EffectiveArea, had it clamped the region passed in as well
EffectiveArea_ClampsCaller(pre, area, bufArea) ==
    RectClamp(IF IsSome(Area(pre)) THEN Unwrap(Area(pre)) ELSE area, bufArea)

\* process: the region of the pre-render effect clamped to the buffer, or
\* the region passed in
EffectiveArea(pre, area, bufArea) ==
    IF IsSome(Area(pre))
    THEN RectClamp(Unwrap(Area(pre)), bufArea)
    ELSE area

\* ContentSetArea, had it left the content effect with the region it had
ContentSetArea_Skipped(content, area) == content

\* ContentSetArea, had it dropped a content effect that is done, as the
\* parent pass drops the parent effect
ContentSetArea_EvictsDone(content, area) ==
    IF IsSome(content) /\ ~EffectDone(Unwrap(content))
    THEN Some(EffectSetArea(Unwrap(content), area))
    ELSE None

\* process: the content effect is given the effective region
ContentSetArea(content, area) ==
    IF IsSome(content)
    THEN Some(EffectSetArea(Unwrap(content), area))
    ELSE content

\* Chrome, had it rendered the window block first and Clear over it
Chrome_BlockThenClear(area) ==
    <<Render("window_block", area, 0, None), Render("Clear", area, 0, None)>>

\* process: Clear, then the window block, rendered to the effective region
Chrome(area) ==
    <<Render("Clear", area, 0, None), Render("window_block", area, 0, None)>>

\* Shader::process for OpenWindow
Process(duration, area) ==
    \E p \in ParentPass(parent_window_fx, duration) :
    \E q \in PreRenderPass(pre_render_fx, duration) :
      LET effective == EffectiveArea(q.fx, area, buf_area)
      IN /\ parent_window_fx' = p.fx
         /\ pre_render_fx' = q.fx
         /\ content_fx' = ContentSetArea(content_fx, effective)
         /\ rendered' =
              (IF p.ran
               THEN <<Render("parent_window_fx", area, duration, p.overflow)>>
               ELSE <<>>)
              \o (IF q.ran
                  THEN <<Render("pre_render_fx", area, duration, q.overflow)>>
                  ELSE <<>>)
              \o Chrome(effective)
         /\ call' = Call("process", duration, Some(area))
         /\ result' = Some(q.overflow)
         /\ UNCHANGED buf_area

\* CellSelection, had it returned without doing anything
CellSelection_Ignored(strategy) ==
    /\ call' = Call("cell_selection", 0, None)
    /\ rendered' = <<>>
    /\ result' = None
    /\ UNCHANGED <<pre_render_fx, parent_window_fx, content_fx, buf_area,
                   builder, status>>

\* Shader::cell_selection for OpenWindow: todo!() panics
CellSelection(strategy) ==
    /\ status = "live"
    /\ status' = "panicked"
    /\ call' = Call("cell_selection", 0, None)
    /\ rendered' = <<>>
    /\ result' = None
    /\ UNCHANGED <<pre_render_fx, parent_window_fx, content_fx, buf_area,
                   builder>>

\* tachyonfx::FilterMode, of which cell_selection reads nothing
FilterModes == {"All", "Inner"}

\* a call on a window that was built and has not panicked
Live(A) == status = "live" /\ A /\ UNCHANGED <<builder, status>>

Next ==
    \/ \E d \in Durations, a \in Rects : Live(Process(d, a))
    \/ \E d \in Durations, a \in Rects : Live(ProcessingContentFx(d, a))
    \/ \E a \in Rects : Live(ScreenArea(a))
    \/ \E a \in Rects : Live(SetArea(a))
    \/ \E m \in FilterModes : CellSelection(m)

Spec == Init /\ [][Next]_vars

\* process called with a positive quantum
Tick == \E d \in 1..MaxDuration, a \in Rects : Live(Process(d, a))

\* windows whose parent and content effects, if any, are running
LiveInit ==
    /\ Init
    /\ parent_window_fx \in Opt({Effect("running", MaxRemaining, None, None)})
    /\ content_fx \in Opt({Effect("running", MaxRemaining, None, None)})

\* the window is ticked again and again with a positive quantum
LiveSpec == LiveInit /\ [][Next]_vars /\ WF_vars(Tick)

\* ------------------------------------------------------------------------
\* Construction: OpenWindowBuilder (derive_builder, pattern = "owned")
\* ------------------------------------------------------------------------
\* the builder: which of the fields without a default were set, and the
\* three effect fields, which default to None
OpenWindowBuilder(fields, pre, parent, content) ==
    [fields |-> fields, pre_render_fx |-> pre, parent_window_fx |-> parent,
     content_fx |-> content]

\* OpenWindow::builder(): OpenWindowBuilder::default()
NewBuilder == OpenWindowBuilder({}, None, None, None)

\* the fields of OpenWindow that carry no #[builder(default)]
RequiredFields ==
    {"title", "title_style", "border_style", "border_type", "background"}

\* the effects handed to a builder
BuildEffects ==
    {Effect("idle", MaxRemaining, None, None), Effect("idle", 1, None, None)}

\* the generated setter of a field without a default
WithField(b, f) == [b EXCEPT !.fields = @ \cup {f}]

\* the generated setters of the effect fields (strip_option: they take the
\* Effect and store Some of it)
WithPreRenderFx(b, fx) == [b EXCEPT !.pre_render_fx = Some(fx)]
WithParentWindowFx(b, fx) == [b EXCEPT !.parent_window_fx = Some(fx)]
WithContentFx(b, fx) == [b EXCEPT !.content_fx = Some(fx)]

\* BuildOk, had border_type defaulted like the effect fields
BuildOk_BorderTypeDefaulted(b) ==
    (RequiredFields \ {"border_type"}) \subseteq b.fields

\* the generated build() returns Ok exactly when every field without a
\* default was set
BuildOk(b) == RequiredFields \subseteq b.fields

\* build() consumes the builder b; on Ok the window holds the builder's
\* effects, on Err there is no window and the caller ends in `failed`
Built(b, name, failed) ==
    /\ builder' = None
    /\ call' = Call(name, 0, None)
    /\ IF BuildOk(b)
       THEN /\ status' = "live"
            /\ pre_render_fx' = b.pre_render_fx
            /\ parent_window_fx' = b.parent_window_fx
            /\ content_fx' = b.content_fx
       ELSE /\ status' = failed
            /\ UNCHANGED <<pre_render_fx, parent_window_fx, content_fx>>
    /\ UNCHANGED <<buf_area, rendered, result>>

\* a setter call on the builder
Setter(b) ==
    /\ status = "building"
    /\ builder' = Some(b)
    /\ UNCHANGED <<pre_render_fx, parent_window_fx, content_fx, buf_area,
                   call, rendered, result, status>>

SetField(f) == Setter(WithField(Unwrap(builder), f))
SetPreRenderFx(fx) == Setter(WithPreRenderFx(Unwrap(builder), fx))
SetParentWindowFx(fx) == Setter(WithParentWindowFx(Unwrap(builder), fx))
SetContentFx(fx) == Setter(WithContentFx(Unwrap(builder), fx))

\* OpenWindowBuilder::build(): the Result is left to the caller
Build ==
    /\ status = "building"
    /\ Built(Unwrap(builder), "build", "build_err")

\* From<OpenWindowBuilder> for Effect: value.build().unwrap().into_effect()
IntoEffect ==
    /\ status = "building"
    /\ Built(Unwrap(builder), "into_effect", "panicked")

\* the builder open_window fills in before it calls build()
OpenWindowBuilt(open_fx, content) ==
    WithContentFx(
        WithPreRenderFx(
            WithField(WithField(WithField(WithField(NewBuilder,
                "title"), "border_style"), "border_type"), "background"),
            open_fx),
        content)

\* open_window: a builder of its own, then build().unwrap()
OpenWindowFn(open_fx, content) ==
    /\ status = "building"
    /\ Built(OpenWindowBuilt(open_fx, content), "open_window", "panicked")

InitBuild ==
    /\ pre_render_fx = None
    /\ parent_window_fx = None
    /\ content_fx = None
    /\ buf_area \in Surfaces
    /\ call = Call("new", 0, None)
    /\ rendered = <<>>
    /\ result = None
    /\ builder = Some(NewBuilder)
    /\ status = "building"

NextBuild ==
    \/ \E f \in RequiredFields : SetField(f)
    \/ \E fx \in BuildEffects : SetPreRenderFx(fx)
    \/ \E fx \in BuildEffects : SetParentWindowFx(fx)
    \/ \E fx \in BuildEffects : SetContentFx(fx)
    \/ Build
    \/ IntoEffect
    \/ \E open_fx \in BuildEffects, content \in BuildEffects :
          OpenWindowFn(open_fx, content)

SpecBuild == InitBuild /\ [][NextBuild]_vars

\* ------------------------------------------------------------------------
\* Reading the last call
\* ------------------------------------------------------------------------
\* the entries of a render log written by `who`
By(log, who) == SelectSeq(log, LAMBDA e : e.who = who)

\* the region Clear was rendered to by the last process call
ClearedArea(log) == By(log, "Clear")[1].area
\* the region the window block was rendered to by the last process call
PaintedArea(log) == By(log, "window_block")[1].area

TypeOK ==
    /\ buf_area \in Surfaces
    /\ Len(rendered) <= 4

\* ------------------------------------------------------------------------
\* Properties
\* ------------------------------------------------------------------------

\* C1: whenever process is called while the pre-render slot is empty or holds
\* an effect that is not running (not started, or done), it returns Some(dt)
\* with exactly the quantum dt it was given, whatever the parent effect did
\* with its own quantum.
C1_FullQuantumWhenNotRunning ==
    [][ (/\ call'.name = "process"
         /\ (IsNone(pre_render_fx) \/ ~EffectRunning(Unwrap(pre_render_fx))))
        => result' = Some(Some(call'.duration)) ]_vars

\* C1 witness: a tick with a positive quantum on a window whose pre-render
\* effect has not started returned the whole quantum, although the parent
\* effect, advanced in the same tick, consumed all of its own.
C1_Witness ==
    /\ call.name = "process"
    /\ call.duration > 0
    /\ IsSome(pre_render_fx)
    /\ Unwrap(pre_render_fx).phase = "idle"
    /\ Len(By(rendered, "parent_window_fx")) = 1
    /\ By(rendered, "parent_window_fx")[1].overflow = None
    /\ result = Some(Some(call.duration))

\* C2: whenever process is called while the pre-render effect is present and
\* running, the effect is advanced once with the quantum and process returns
\* the leftover that advance returned: None if the quantum did not exceed what
\* remained of the effect, Some(dt - remaining) if it did, and in that case
\* the window is done right after the call.
C2_OverflowOfRunningPreRender ==
    [][ (/\ call'.name = "process"
         /\ IsSome(pre_render_fx)
         /\ EffectRunning(Unwrap(pre_render_fx)))
        => LET rem == Unwrap(pre_render_fx).remaining
               dt == call'.duration
               adv == By(rendered', "pre_render_fx")
           IN /\ Len(adv) = 1
              /\ adv[1].duration = dt
              /\ result' = Some(adv[1].overflow)
              /\ (dt <= rem => result' = Some(None))
              /\ (dt > rem => /\ result' = Some(Some(dt - rem))
                              /\ Done(pre_render_fx')) ]_vars

\* C2 witness: the pre-render effect had 1 unit left and was ticked with a
\* quantum of 3: process returned Some(2) and the window is done.
C2_Witness ==
    /\ call.name = "process"
    /\ call.duration = 3
    /\ Len(By(rendered, "pre_render_fx")) = 1
    /\ result = Some(Some(2))
    /\ IsSome(pre_render_fx)
    /\ Done(pre_render_fx)

\* C3: in every state the window is done exactly if the pre-render slot is
\* empty or the effect in it is done; no call empties or fills the slot, so a
\* window built without the effect is done from the start and for ever; and a
\* window that was not done becomes done only in a process call that leaves
\* the pre-render effect done.
C3_DoneIffNoPreRenderOrEffectDone ==
    /\ [](Done(pre_render_fx) <=>
            (pre_render_fx = None \/ Unwrap(pre_render_fx).phase = "done"))
    /\ [][ /\ (pre_render_fx = None) <=> (pre_render_fx' = None)
           /\ (~Done(pre_render_fx) /\ Done(pre_render_fx'))
                => (/\ call'.name = "process"
                    /\ Len(By(rendered', "pre_render_fx")) = 1
                    /\ Unwrap(pre_render_fx').phase = "done")
           /\ (Done(pre_render_fx) => Done(pre_render_fx')) ]_vars

\* C3 witness: the window became done in this tick, in which its pre-render
\* effect finished, while the parent and the content effect are still there
\* and not done.
C3_Witness ==
    /\ call.name = "process"
    /\ Len(By(rendered, "pre_render_fx")) = 1
    /\ IsSome(pre_render_fx)
    /\ Done(pre_render_fx)
    /\ IsSome(parent_window_fx)
    /\ ~EffectDone(Unwrap(parent_window_fx))
    /\ IsSome(content_fx)
    /\ ~EffectDone(Unwrap(content_fx))

\* C4: after every process call in which the pre-render effect reports a
\* region, Clear and the window block were rendered to that region clamped to
\* the bounds of the buffer, the content effect (if any) has that clamped
\* region, and the clamped region lies inside the bounds of the buffer.
C4_ReportedRegionClampedToSurface ==
    (call.name = "process" /\ IsSome(Area(pre_render_fx)))
    => LET clamped == RectClamp(Unwrap(Area(pre_render_fx)), buf_area)
       IN /\ Within(clamped, buf_area)
          /\ ClearedArea(rendered) = clamped
          /\ PaintedArea(rendered) = clamped
          /\ IsSome(content_fx) => Unwrap(content_fx).area = Some(clamped)

\* C4 witness: the pre-render effect reports a region that is larger than the
\* buffer and starts outside it; the chrome was rendered to, and the content
\* effect holds, a different region.
C4_Witness ==
    /\ call.name = "process"
    /\ Area(pre_render_fx) = Some(Oversize)
    /\ ~Within(Oversize, buf_area)
    /\ IsSome(content_fx)
    /\ Unwrap(content_fx).area = Some(ClearedArea(rendered))
    /\ ClearedArea(rendered) # Oversize

\* C5 as claimed: after every process call the region Clear and the window
\* block were rendered to lies inside the bounds of the buffer, for every
\* region passed in and whatever the slots hold.
C5_ChromeAlwaysWithinSurface ==
    call.name = "process"
    => /\ Within(ClearedArea(rendered), buf_area)
       /\ Within(PaintedArea(rendered), buf_area)

\* C5 as amended: after every process call the region Clear and the window
\* block were rendered to lies inside the bounds of the buffer if the
\* pre-render effect reports a region or the region passed in lies inside
\* the bounds; if the pre-render effect reports no region (or the slot is
\* empty) the chrome region is the region passed in, as it is.
C5_ChromeWithinWhenClampedOrCallerWithin ==
    call.name = "process"
    => LET chrome == ClearedArea(rendered)
           passed == Unwrap(call.area)
       IN /\ PaintedArea(rendered) = chrome
          /\ (IsSome(Area(pre_render_fx)) \/ Within(passed, buf_area))
               => Within(chrome, buf_area)
          /\ IsNone(Area(pre_render_fx)) => chrome = passed

\* C5 witness: a tick on a window with no pre-render effect, given a region
\* outside the buffer, rendered the chrome to that region.
C5_Witness ==
    /\ call.name = "process"
    /\ IsNone(pre_render_fx)
    /\ ~Within(Unwrap(call.area), buf_area)
    /\ ClearedArea(rendered) = Unwrap(call.area)

\* C6: a process call that advances a running parent effect up to or past
\* the end of its timeline leaves the parent slot empty, and a process call
\* never leaves a done effect in the slot; once the slot is empty, every call
\* leaves it empty and no call advances a parent effect.
C6_ParentEvictedForGood ==
    [][ /\ (/\ call'.name = "process"
            /\ IsSome(parent_window_fx)
            /\ EffectRunning(Unwrap(parent_window_fx))
            /\ Unwrap(parent_window_fx).remaining <= call'.duration)
           => (/\ parent_window_fx' = None
               /\ Len(By(rendered', "parent_window_fx")) = 1)
        /\ (call'.name = "process" /\ IsSome(parent_window_fx'))
           => ~EffectDone(Unwrap(parent_window_fx'))
        /\ IsNone(parent_window_fx)
           => (/\ parent_window_fx' = None
               /\ Len(By(rendered', "parent_window_fx")) = 0) ]_vars

\* C6 witness: a tick with a positive quantum advanced the parent effect and
\* left the parent slot empty.
C6_Witness ==
    /\ call.name = "process"
    /\ IsNone(parent_window_fx)
    /\ Len(By(rendered, "parent_window_fx")) = 1
    /\ By(rendered, "parent_window_fx")[1].duration > 0

\* C7: a processing_content_fx call leaves done() of the window as it was,
\* renders neither Clear nor the window block, and leaves the parent and the
\* pre-render slot and the effects in them as they were.
C7_ContentTickDecoupled ==
    [][ call'.name = "processing_content_fx"
        => (/\ Done(pre_render_fx') = Done(pre_render_fx)
            /\ By(rendered', "Clear") = <<>>
            /\ By(rendered', "window_block") = <<>>
            /\ parent_window_fx' = parent_window_fx
            /\ pre_render_fx' = pre_render_fx) ]_vars

\* C7 witness: a content tick advanced the content effect of a window that is
\* not done and has a parent effect.
C7_Witness ==
    /\ call.name = "processing_content_fx"
    /\ Len(By(rendered, "content_fx")) = 1
    /\ IsSome(pre_render_fx)
    /\ ~Done(pre_render_fx)
    /\ IsSome(parent_window_fx)

\* C8: a processing_content_fx call on an empty content slot, or on a content
\* effect that is not running, writes nothing to the buffer and leaves every
\* slot as it was; on a running content effect it advances that effect once,
\* with the quantum and the region it was given, and touches nothing else.
C8_ContentTickOnlyWhenRunning ==
    [][ call'.name = "processing_content_fx"
        => IF IsSome(content_fx) /\ EffectRunning(Unwrap(content_fx))
           THEN /\ Len(rendered') = 1
                /\ rendered'[1].who = "content_fx"
                /\ rendered'[1].duration = call'.duration
                /\ Some(rendered'[1].area) = call'.area
                /\ IsSome(content_fx')
                /\ Unwrap(content_fx').remaining =
                     TimerRemaining(Unwrap(content_fx).remaining, call'.duration)
           ELSE /\ rendered' = <<>>
                /\ content_fx' = content_fx
                /\ pre_render_fx' = pre_render_fx
                /\ parent_window_fx' = parent_window_fx
                /\ buf_area' = buf_area ]_vars

\* C8 witness: a content tick with a positive quantum on a content effect
\* that has not started did nothing.
C8_Witness ==
    /\ call.name = "processing_content_fx"
    /\ call.duration > 0
    /\ IsSome(content_fx)
    /\ Unwrap(content_fx).phase = "idle"
    /\ rendered = <<>>

\* C9: a process call on a window with a content effect leaves that effect
\* with the region the chrome was rendered to, which is the region the
\* pre-render effect reports after the call (clamped to the buffer) or else
\* the region passed in, and leaves everything else of the content effect
\* (timer, running and done) as it was, without advancing it; the timeline of
\* the content effect changes in processing_content_fx calls only.
C9_ProcessSetsContentAreaOnly ==
    [][ /\ (call'.name = "process" /\ IsSome(content_fx))
           => LET chrome == ClearedArea(rendered')
                  reported == Area(pre_render_fx')
              IN /\ chrome = IF IsSome(reported)
                             THEN RectClamp(Unwrap(reported), buf_area)
                             ELSE Unwrap(call'.area)
                 /\ content_fx' =
                      Some([Unwrap(content_fx) EXCEPT !.area = Some(chrome)])
                 /\ By(rendered', "content_fx") = <<>>
        /\ (/\ IsSome(content_fx)
            /\ IsSome(content_fx')
            /\ \/ Unwrap(content_fx').phase # Unwrap(content_fx).phase
               \/ Unwrap(content_fx').remaining # Unwrap(content_fx).remaining)
           => call'.name = "processing_content_fx" ]_vars

\* C9 witness: a tick advanced the pre-render effect, which moved to a region
\* of its own; the content effect, still running with its whole timeline
\* left, holds that region clamped and not the region passed in.
C9_Witness ==
    /\ call.name = "process"
    /\ Len(By(rendered, "pre_render_fx")) = 1
    /\ Area(pre_render_fx) = Some(Oversize)
    /\ call.area = Some(Oversize)
    /\ IsSome(content_fx)
    /\ EffectRunning(Unwrap(content_fx))
    /\ Unwrap(content_fx).remaining = MaxRemaining
    /\ Unwrap(content_fx).area = Some(RectClamp(Oversize, buf_area))
    /\ Unwrap(content_fx).area # call.area

\* C10: a screen_area call gives the region to the parent effect if the
\* parent slot is occupied and changes nothing of the window otherwise; it
\* leaves the pre-render and the content slot, the regions of their effects
\* and done() of the window as they were, and empties or fills no slot.
C10_ScreenAreaForwardsToParentOnly ==
    [][ call'.name = "screen_area"
        => (/\ parent_window_fx' =
                 IF IsSome(parent_window_fx)
                 THEN Some([Unwrap(parent_window_fx) EXCEPT !.area = call'.area])
                 ELSE None
            /\ pre_render_fx' = pre_render_fx
            /\ content_fx' = content_fx
            /\ Done(pre_render_fx') = Done(pre_render_fx)
            /\ rendered' = <<>>) ]_vars

\* C10 witness: after a screen_area call the parent effect has the new
\* region; the pre-render and the content effect hold other regions.
C10_Witness ==
    /\ call.name = "screen_area"
    /\ IsSome(parent_window_fx)
    /\ Unwrap(parent_window_fx).area = call.area
    /\ IsSome(pre_render_fx)
    /\ IsSome(Area(pre_render_fx))
    /\ Area(pre_render_fx) # call.area
    /\ IsSome(content_fx)
    /\ IsSome(Unwrap(content_fx).area)
    /\ Unwrap(content_fx).area # call.area

\* C13: after every process call on a window whose pre-render slot is empty
\* or whose pre-render effect reports no region, Clear and the window block
\* were rendered, once each, to exactly the region passed in, and the content
\* effect (if any) holds that region.
C13_EffectiveIsCallerRegionWithoutReport ==
    (call.name = "process" /\ IsNone(Area(pre_render_fx)))
    => /\ Len(By(rendered, "Clear")) = 1
       /\ Len(By(rendered, "window_block")) = 1
       /\ Some(ClearedArea(rendered)) = call.area
       /\ Some(PaintedArea(rendered)) = call.area
       /\ IsSome(content_fx) => Unwrap(content_fx).area = call.area

\* C13 witness: a window with no effect at all was ticked with the region
\* (0,0,10,3) on a buffer of bounds (0,0,10,3): the whole quantum came back
\* and the chrome was rendered to (0,0,10,3).
C13_Witness ==
    /\ call.name = "process"
    /\ pre_render_fx = None
    /\ parent_window_fx = None
    /\ content_fx = None
    /\ buf_area = Rect(0, 0, 10, 3)
    /\ call.area = Some(Rect(0, 0, 10, 3))
    /\ result = Some(Some(call.duration))
    /\ rendered = Chrome(Rect(0, 0, 10, 3))

\* C14: every process call writes to the buffer in this order: the parent
\* effect (if the slot is occupied), the pre-render effect (if it is
\* running), Clear, the window block, and nothing else; Clear and the window
\* block are rendered once each, last, to the region computed from what the
\* pre-render effect reports after its advance; also when the window is done.
C14_ProcessOrder ==
    call.name = "process"
    => LET n == Len(rendered)
           effective == IF IsSome(Area(pre_render_fx))
                        THEN RectClamp(Unwrap(Area(pre_render_fx)), buf_area)
                        ELSE Unwrap(call.area)
           effects == SubSeq(rendered, 1, n - 2)
       IN /\ n >= 2
          /\ rendered[n - 1] = Render("Clear", effective, 0, None)
          /\ rendered[n] = Render("window_block", effective, 0, None)
          /\ Len(By(rendered, "Clear")) = 1
          /\ Len(By(rendered, "window_block")) = 1
          /\ \A i \in 1..(n - 2) :
               /\ effects[i].who \in {"parent_window_fx", "pre_render_fx"}
               /\ Some(effects[i].area) = call.area
               /\ effects[i].duration = call.duration
          /\ \A i, j \in 1..(n - 2) :
               (i < j) => (/\ effects[i].who = "parent_window_fx"
                           /\ effects[j].who = "pre_render_fx")

\* C14 witness: a tick advanced the parent effect, then the pre-render
\* effect, which moved to a region of its own, then rendered Clear and the
\* window block to that region clamped.
C14_Witness ==
    /\ call.name = "process"
    /\ Len(rendered) = 4
    /\ rendered[1].who = "parent_window_fx"
    /\ rendered[2].who = "pre_render_fx"
    /\ rendered[3].who = "Clear"
    /\ rendered[4].who = "window_block"
    /\ call.area = Some(Screen)
    /\ Area(pre_render_fx) = Some(Oversize)
    /\ rendered[4].area = RectClamp(Oversize, buf_area)

\* C15: every process call on a window whose parent slot is occupied
\* advances the parent effect once, first, over the region passed in and with
\* the whole quantum, whether that effect is running, not started or done and
\* whatever the pre-render slot holds.
C15_ParentAlwaysAdvanced ==
    [][ (call'.name = "process" /\ IsSome(parent_window_fx))
        => (/\ Len(By(rendered', "parent_window_fx")) = 1
            /\ rendered'[1].who = "parent_window_fx"
            /\ Some(rendered'[1].area) = call'.area
            /\ rendered'[1].duration = call'.duration) ]_vars

\* C15 witness: a tick advanced a parent effect that has not started (and
\* still has not), on a window whose pre-render effect is done.
C15_Witness ==
    /\ call.name = "process"
    /\ call.duration > 0
    /\ IsSome(parent_window_fx)
    /\ Unwrap(parent_window_fx).phase = "idle"
    /\ Len(By(rendered, "parent_window_fx")) = 1
    /\ IsSome(pre_render_fx)
    /\ Done(pre_render_fx)

\* C17: no call empties the content slot.
C17_ContentNeverEvicted ==
    [][ IsSome(content_fx) => IsSome(content_fx') ]_vars

\* C17 witness: the tick that evicted the parent effect left a content
\* effect that is done in its slot.
C17_Witness ==
    /\ call.name = "process"
    /\ Len(By(rendered, "parent_window_fx")) = 1
    /\ parent_window_fx = None
    /\ IsSome(content_fx)
    /\ EffectDone(Unwrap(content_fx))
    /\ Unwrap(content_fx).remaining = 0

\* C16 as claimed: once the pre-render effect is done, every process call
\* leaves it as it is and uses the effective region of the tick before (the
\* region the content effect was given then), here for an effect that
\* reports a region, so that the region passed in plays no part.
C16_EffectiveRegionFrozenOnceDone ==
    [][ (/\ call'.name = "process"
         /\ IsSome(pre_render_fx)
         /\ EffectDone(Unwrap(pre_render_fx))
         /\ IsSome(Area(pre_render_fx))
         /\ IsSome(content_fx)
         /\ IsSome(Unwrap(content_fx).area))
        => (/\ pre_render_fx' = pre_render_fx
            /\ Some(ClearedArea(rendered')) = Unwrap(content_fx).area) ]_vars

\* C16 as amended: once the pre-render effect is done, every call leaves it
\* in its slot, done and with its timer as it was, and no call advances it;
\* the region it reports changes in set_area calls only; every later process
\* call uses the region it reports at that call, clamped to the buffer (the
\* region passed in if it reports none), so two process calls in a row use
\* the same region if it reports one.
C16_DonePreRenderRetained ==
    [][ (IsSome(pre_render_fx) /\ EffectDone(Unwrap(pre_render_fx)))
        => (/\ IsSome(pre_render_fx')
            /\ EffectDone(Unwrap(pre_render_fx'))
            /\ Unwrap(pre_render_fx').remaining = Unwrap(pre_render_fx).remaining
            /\ By(rendered', "pre_render_fx") = <<>>
            /\ (Area(pre_render_fx') # Area(pre_render_fx))
                 => call'.name = "set_area"
            /\ (call'.name = "process")
                 => ClearedArea(rendered') =
                      IF IsSome(Area(pre_render_fx))
                      THEN RectClamp(Unwrap(Area(pre_render_fx)), buf_area)
                      ELSE Unwrap(call'.area)
            /\ (/\ call'.name = "process"
                /\ call.name = "process"
                /\ IsSome(Area(pre_render_fx)))
                 => ClearedArea(rendered') = ClearedArea(rendered)) ]_vars

\* C16 witness: a tick that did not advance the pre-render effect, which is
\* done and reports a region it can only have been given by set_area (its
\* own advance would have left it elsewhere), used that region clamped.
C16_Witness ==
    /\ call.name = "process"
    /\ IsSome(pre_render_fx)
    /\ EffectDone(Unwrap(pre_render_fx))
    /\ By(rendered, "pre_render_fx") = <<>>
    /\ Unwrap(pre_render_fx).reshape = Some(Screen)
    /\ Area(pre_render_fx) = Some(Oversize)
    /\ ClearedArea(rendered) = RectClamp(Oversize, buf_area)

\* C19 as claimed: the process call that follows a set_area(A) call on a
\* window with a pre-render effect uses A clamped to the buffer as effective
\* region and gives it to the content effect, whether the pre-render effect
\* is running or not.
C19_NextTickUsesSetArea ==
    [][ (/\ call.name = "set_area"
         /\ IsSome(pre_render_fx)
         /\ call'.name = "process")
        => LET given == RectClamp(Unwrap(call.area), buf_area)
           IN /\ ClearedArea(rendered') = given
              /\ IsSome(content_fx) => Unwrap(content_fx').area = Some(given) ]_vars

\* C19 as amended: a set_area(A) call gives A to the pre-render effect if
\* the slot is occupied, and changes nothing of the window otherwise; the
\* window reports the region of the pre-render effect, none if the slot is
\* empty; the process call that follows set_area(A) on an occupied slot uses
\* A clamped to the buffer, for the chrome and the content effect, if the
\* pre-render effect is not running, and if it is running the region it
\* reports after its advance in that call, clamped, which is A clamped only
\* if the advance leaves its region alone.
C19_SetAreaForwardsToPreRender ==
    /\ [](Area(pre_render_fx) =
            IF pre_render_fx = None THEN None ELSE pre_render_fx[1].area)
    /\ [][ /\ (call'.name = "set_area")
              => (/\ pre_render_fx' =
                       IF IsSome(pre_render_fx)
                       THEN Some([Unwrap(pre_render_fx) EXCEPT !.area = call'.area])
                       ELSE None
                  /\ Area(pre_render_fx') =
                       IF IsSome(pre_render_fx) THEN call'.area ELSE None
                  /\ parent_window_fx' = parent_window_fx
                  /\ content_fx' = content_fx
                  /\ rendered' = <<>>)
           /\ (/\ call.name = "set_area"
               /\ IsSome(pre_render_fx)
               /\ call'.name = "process")
              => LET given == RectClamp(Unwrap(call.area), buf_area)
                     after == RectClamp(Unwrap(Area(pre_render_fx')), buf_area)
                     advanced == By(rendered', "pre_render_fx") # <<>>
                 IN /\ advanced = EffectRunning(Unwrap(pre_render_fx))
                    /\ ClearedArea(rendered') = after
                    /\ IsSome(content_fx) => Unwrap(content_fx').area = Some(after)
                    /\ (~advanced) => after = given
                    /\ (Area(pre_render_fx') = Area(pre_render_fx)) => after = given
         ]_vars

\* C19 witness: a tick given one region used another: the region that
\* set_area gave to the pre-render effect, which has not started, clamped.
C19_Witness ==
    /\ call.name = "process"
    /\ call.area = Some(Screen)
    /\ IsSome(pre_render_fx)
    /\ Unwrap(pre_render_fx).phase = "idle"
    /\ Area(pre_render_fx) = Some(Oversize)
    /\ ClearedArea(rendered) = RectClamp(Oversize, buf_area)
    /\ IsSome(content_fx)
    /\ Unwrap(content_fx).area = Some(RectClamp(Oversize, buf_area))
    /\ IsSome(parent_window_fx)
    /\ Unwrap(parent_window_fx).area = None

\* C12: a cell_selection call never returns normally with the three slots as
\* they were: it panics (the code never propagates a selection).
C12_CellSelectionNeverIgnored ==
    [][ call'.name = "cell_selection"
        => (/\ status' = "panicked"
            /\ ~(/\ status' = "live"
                 /\ pre_render_fx' = pre_render_fx
                 /\ parent_window_fx' = parent_window_fx
                 /\ content_fx' = content_fx)) ]_vars

\* C12 witness: a cell_selection call on a window with all three effects
\* panicked.
C12_Witness ==
    /\ call.name = "cell_selection"
    /\ status = "panicked"
    /\ IsSome(pre_render_fx)
    /\ IsSome(parent_window_fx)
    /\ IsSome(content_fx)

\* C18: under repeated ticks with a positive quantum a window whose
\* pre-render effect is running becomes done (unless it panics first); a
\* window that is done stays done under every call; a pre-render effect that
\* has not started is advanced by no call, keeps its timer and stays not
\* started, so that such a window never becomes done.
C18_OpenTransitionCompletes ==
    /\ (IsSome(pre_render_fx) /\ EffectRunning(Unwrap(pre_render_fx)))
         ~> (Done(pre_render_fx) \/ status = "panicked")
    /\ [][ /\ Done(pre_render_fx) => Done(pre_render_fx')
           /\ (IsSome(pre_render_fx) /\ Unwrap(pre_render_fx).phase = "idle")
              => (/\ IsSome(pre_render_fx')
                  /\ Unwrap(pre_render_fx').phase = "idle"
                  /\ Unwrap(pre_render_fx').remaining
                       = Unwrap(pre_render_fx).remaining
                  /\ By(rendered', "pre_render_fx") = <<>>
                  /\ ~Done(pre_render_fx')) ]_vars

\* C18 witness: the window became done in a tick in which its pre-render
\* effect used up the whole quantum, after an earlier tick had advanced it
\* without finishing it.
C18_Witness ==
    /\ call.name = "process"
    /\ call.duration = 1
    /\ IsSome(pre_render_fx)
    /\ Done(pre_render_fx)
    /\ By(rendered, "pre_render_fx") # <<>>
    /\ result = Some(None)
    /\ MaxRemaining > 1

\* C11: the spec's statement: build succeeds exactly when title, border
\* style, title style and background have been supplied.
C11_BuildNeedsFourFields ==
    [][ (status = "building" /\ call'.name \in {"build", "into_effect"})
        => (status' = "live"
            <=> {"title", "border_style", "title_style", "background"}
                    \subseteq Unwrap(builder).fields) ]_vars

\* C11 (as the code has it): build succeeds exactly when title, border style,
\* title style, background and border type have all been supplied; the window
\* then holds the effects given to the builder and None for every effect not
\* given. If one of the five is missing build returns Err and there is no
\* window, and the builder-to-Effect conversion panics on that Err.
C11_BuildNeedsAllFiveFields ==
    [][ (status = "building" /\ call'.name \in {"build", "into_effect"})
        => LET b == Unwrap(builder)
               supplied == \A f \in {"title", "border_style", "title_style",
                                     "background", "border_type"} :
                               f \in b.fields
           IN  /\ supplied
                   => /\ status' = "live"
                      /\ pre_render_fx' = b.pre_render_fx
                      /\ parent_window_fx' = b.parent_window_fx
                      /\ content_fx' = b.content_fx
               /\ ~supplied
                   => /\ status' = IF call'.name = "build"
                                   THEN "build_err" ELSE "panicked"
                      /\ pre_render_fx' = None
                      /\ parent_window_fx' = None
                      /\ content_fx' = None ]_vars

\* C11 witness: a build with every required field and only the pre-render
\* effect supplied produced a window whose other two slots are None.
C11_Witness ==
    /\ call.name = "build"
    /\ status = "live"
    /\ IsSome(pre_render_fx)
    /\ IsNone(parent_window_fx)
    /\ IsNone(content_fx)

\* C20: every call of open_window returns a window whose pre-render and
\* content slots hold the given effects and whose parent slot is empty.
C20_OpenWindowSucceeds ==
    [][ \A open_fx \in BuildEffects, content \in BuildEffects :
          OpenWindowFn(open_fx, content)
          => /\ status' = "live"
             /\ pre_render_fx' = Some(open_fx)
             /\ content_fx' = Some(content)
             /\ parent_window_fx' = None ]_vars
====
